---------------------------- MODULE Spec2Model ----------------------------
(***************************************************************************)
(* The poetry.lock hash cache that gates `poetry export`                   *)
(* (bin/pywf_open_source/define_05_deps.py, and the identical logic of     *)
(* bin/pyproject_ops/pyproject_deps.py).                                   *)
(*                                                                         *)
(* One process calls poetry_export(real_run); the call reads poetry.lock,  *)
(* compares its hash with .poetry-lock-hash.json, runs the five export     *)
(* commands and finally rewrites the hash file.  Every subprocess.run is a *)
(* blocking point, so the owner of poetry.lock may edit the file between   *)
(* any two steps of a call.  The hash file is owned by the calling process *)
(* and is removed or damaged by hand only between calls.                   *)
(***************************************************************************)
EXTENDS Integers, Sequences, FiniteSets, TLC

\* ------------------------------------------------------------------ bounds
\* Number of distinct contents poetry.lock takes.
NumContents == 2

\* Number of calls followed by the scenario of three calls.
MaxCalls == 3

\* Depth of the deepest directory find_config_file is started in.
MaxDepth == 4

\* Number of nested calls after which the interpreter raises RecursionError
\* (sys.getrecursionlimit(), 1000 frames by default).
MaxFrames == 6

Contents == 1 .. NumContents

\* ----------------------------------------------------------- program data
\* The exported files, in the order _poetry_export_logic produces them:
\* requirements.txt first, then the loop over (dev, test, doc, auto).
Groups == <<"dev", "test", "doc", "auto">>

Targets == {"main"} \cup {Groups[i] : i \in 1 .. Len(Groups)}

\* An exported file that does not exist (after unlink(missing_ok=True)).
Missing == 0

\* The "description" text written next to the hash.
Description == "DON'T edit this file manually!"

\* helpers.sha256_of_bytes: a digest, deterministic and free of collisions on
\* the contents considered.  Not the identity: a content and its digest differ.
sha256_of_bytes(b) == (b * 4099 + 17) % 8191

\* A file of the project directory: either absent or holding a text, the
\* text being the sequence of JSON tokens of the file.
NoFile == [exists |-> FALSE, text |-> <<>>]

FileOf(t) == [exists |-> TRUE, text |-> t]

\* Variant of json_dumps: the object is written without its "description".
json_dumps_hash_only(h, d) == <<"{", "hash", h, "}">>

\* Variant of json_dumps: only a prefix of the digest is written.
json_dumps_short_hash(h, d) == <<"{", "hash", h \div 16, "description", d, "}">>

\* json.dumps({"hash": h, "description": d}, indent=4)
json_dumps(h, d) == <<"{", "hash", h, "description", d, "}">>

\* json.loads(text): whether the text is a JSON document at all.  A file cut
\* short is not.
json_loads_ok(t) ==
    /\ Len(t) >= 2
    /\ t[1] = "{"
    /\ t[Len(t)] = "}"
    /\ Len(t) % 2 = 0

\* json.loads(text): the keys of the decoded object.
json_keys(t) == {t[2 * i] : i \in 1 .. ((Len(t) - 2) \div 2)}

\* json.loads(text)[k] for a key k the object has.
json_get(t, k) ==
    LET i == CHOOSE j \in 1 .. ((Len(t) - 2) \div 2) : t[2 * j] = k
    IN  t[2 * i + 1]

\* Texts a damaged hash file holds: cut short while being edited, or a JSON
\* object that lost its "hash" key.
TruncatedText == <<"{", "hash">>

NoHashText == <<"{", "description", Description, "}">>

DamagedTexts == {TruncatedText, NoHashText}

\* ------------------------------------------------------------------ state
VARIABLES
    poetry_lock,          \* content of poetry.lock
    hash_json,            \* the file .poetry-lock-hash.json
    requirements,         \* per target, the lock content its file was exported from
    pc,                   \* position of the call in progress
    real_run,             \* the real_run argument of the call
    poetry_lock_hash,     \* local of _poetry_export (line 517)
    need,                 \* value of the condition of line 518
    group_i,              \* index of the for loop of lines 479-487
    returned,             \* outcome of _poetry_export: a flag or the error raised
    commands,             \* what the call did so far: check, unlink, run, write
    bytes_read,           \* history: the bytes read_bytes() returned at line 517
    hash_json_at_call,    \* history: the hash file when the call started
    cached_input,         \* history: bytes_read of the call that last wrote the hash file
    lock_at_write,        \* history: poetry.lock at the moment of that write
    entry,                \* the entry point of the call in progress
    cwd,                  \* working directory of the process
    run_cwds,             \* working directories subprocess.run was invoked in, this call
    outcomes,             \* history: what each finished call read, returned and left
    with_logger,          \* the call of _with_logger in progress (define_02_logger.py)
    venv,                 \* the virtual environment and the call on it (define_03_venv.py)
    hs,                   \* the HomeSecret instance and the two secret files (home_secret.py)
    search,               \* the last call of find_config_file (init.py)
    procs,                \* two processes calling _poetry_export on one project
    tests                 \* the call of a test runner in progress (pyproject_tests.py)

\* The state of the dependency export.
deps_vars == <<poetry_lock, hash_json, requirements, pc, real_run, poetry_lock_hash,
               need, group_i, returned, commands, bytes_read, hash_json_at_call,
               cached_input, lock_at_write, entry, cwd, run_cwds, outcomes>>

\* The state of the other helpers of the toolkit.
other_vars == <<venv, hs, search, procs, tests>>

vars == <<deps_vars, with_logger, other_vars>>

\* ------------------------------------------------------------ _with_logger
\* The keyword arguments handed to _with_logger for the wrapped method.
Kwargs == [real_run : BOOLEAN]

\* What a wrapped method does with its arguments: it returns a value or raises.
Outcomes == {"True", "False", "raise"}

Methods == [Kwargs -> Outcomes]

NoLoggerCall ==
    [pc |-> "idle", verbose |-> FALSE, kwargs |-> [real_run |-> TRUE],
     method |-> [k \in Kwargs |-> "True"], received |-> <<>>, result |-> "none",
     log |-> <<>>]

\* Directories the process may be started in.
Directories == {"dir_project_root", "elsewhere"}

\* No call on the virtual environment is in progress; dir_venv tells whether
\* the directory .venv exists.
NoVenvCall(exists) ==
    [dir_venv |-> exists, pc |-> "idle", op |-> "none", real_run |-> TRUE,
     returned |-> "none", commands |-> <<>>, dir_venv_at_call |-> exists,
     last |-> [op |-> "none", real_run |-> TRUE, returned |-> "none"]]

\* A fresh process: hs = HomeSecret() (line 122) has loaded nothing, no Token
\* exists; the two files are what earlier processes and the user left.
NoSecretLoaded(here, home) ==
    [p_here_secret |-> here, p_home_secret |-> home,
     data |-> [loaded |-> FALSE, dct |-> [k \in {} |-> "none"]],
     tokens |-> {}, touched_by |-> "none", here_at_load |-> NoFile,
     last |-> [op |-> "none", path |-> "none", value |-> "none",
               here |-> NoFile, home |-> NoFile]]

\* find_config_file was not called yet.
NoSearch == [dir_cwd |-> 0, files |-> {}, found |-> FALSE, dir |-> 0, calls |-> 0]

\* The two processes.
Procs == {1, 2}

\* A process that has not called _poetry_export yet.
NoProcCall ==
    [pc |-> "idle", poetry_lock_hash |-> 0, need |-> "none", group_i |-> 1,
     returned |-> "none"]

\* The project the two processes share, before either of them runs.
NoProcs ==
    [started |-> FALSE, poetry_lock |-> 1, hash_json |-> NoFile,
     requirements |-> [t \in Targets |-> Missing],
     p |-> [i \in Procs |-> NoProcCall]]

\* No test runner is being called.
NoTestCall ==
    [pc |-> "idle", stack |-> <<>>, real_run |-> TRUE, verbose |-> FALSE,
     invoked |-> <<>>, commands |-> <<>>, result |-> "none"]

Errors == {"JSONDecodeError", "KeyError", "CalledProcessError", "FileNotFoundError"}

Event(op, arg, ok) == [op |-> op, arg |-> arg, ok |-> ok]

Init ==
    /\ poetry_lock \in Contents
    /\ hash_json = NoFile
    /\ requirements = [t \in Targets |-> Missing]
    /\ pc = "idle"
    /\ real_run = TRUE
    /\ poetry_lock_hash = 0
    /\ need = "none"
    /\ group_i = 1
    /\ returned = "none"
    /\ commands = <<>>
    /\ bytes_read = 0
    /\ hash_json_at_call = NoFile
    /\ cached_input = 0
    /\ lock_at_write = 0
    /\ entry = "poetry_export"
    /\ cwd \in Directories
    /\ run_cwds = {}
    /\ outcomes = <<>>
    /\ with_logger = NoLoggerCall
    /\ venv = NoVenvCall(FALSE)
    /\ hs = NoSecretLoaded(NoFile, NoFile)
    /\ search = NoSearch
    /\ procs = NoProcs
    /\ tests = NoTestCall

\* ----------------------------------------------------- _do_we_need_poetry_export
\* Variants of _do_we_need_poetry_export: one slip each.
\* (a) a missing hash file reads as "nothing to do";
_do_we_need_absent_false(current_poetry_lock_hash, file) ==
    IF file.exists
    THEN IF ~json_loads_ok(file.text) THEN "JSONDecodeError"
         ELSE IF "hash" \notin json_keys(file.text) THEN "KeyError"
         ELSE IF current_poetry_lock_hash # json_get(file.text, "hash")
              THEN "True"
              ELSE "False"
    ELSE "False"

\* (b) the comparison is == instead of !=;
_do_we_need_equal(current_poetry_lock_hash, file) ==
    IF file.exists
    THEN IF ~json_loads_ok(file.text) THEN "JSONDecodeError"
         ELSE IF "hash" \notin json_keys(file.text) THEN "KeyError"
         ELSE IF current_poetry_lock_hash = json_get(file.text, "hash")
              THEN "True"
              ELSE "False"
    ELSE "True"

\* (c) the stored hash is read and then ignored: always export;
_do_we_need_always(current_poetry_lock_hash, file) ==
    IF file.exists
    THEN IF ~json_loads_ok(file.text) THEN "JSONDecodeError"
         ELSE IF "hash" \notin json_keys(file.text) THEN "KeyError"
         ELSE "True"
    ELSE "True"

\* (d) a hash file that holds a hash counts as up to date.
_do_we_need_never(current_poetry_lock_hash, file) ==
    IF file.exists
    THEN IF ~json_loads_ok(file.text) THEN "JSONDecodeError"
         ELSE IF "hash" \notin json_keys(file.text) THEN "KeyError"
         ELSE "False"
    ELSE "True"

\* (e) a damaged hash file is caught and read as "export again".
_do_we_need_repair(current_poetry_lock_hash, file) ==
    IF file.exists
    THEN IF ~json_loads_ok(file.text) THEN "True"
         ELSE IF "hash" \notin json_keys(file.text) THEN "True"
         ELSE IF current_poetry_lock_hash # json_get(file.text, "hash")
              THEN "True"
              ELSE "False"
    ELSE "True"

\* Lines 388-396: "True" / "False", or the error that json.loads or ["hash"]
\* raises on a file that exists and is damaged.
_do_we_need_poetry_export(current_poetry_lock_hash, file) ==
    IF file.exists
    THEN IF ~json_loads_ok(file.text) THEN "JSONDecodeError"
         ELSE IF "hash" \notin json_keys(file.text) THEN "KeyError"
         ELSE IF current_poetry_lock_hash # json_get(file.text, "hash")
              THEN "True"
              ELSE "False"
    ELSE "True"

\* Variants of write_hash_json:
\* (a) the write sits in a `finally`, so it also happens when a command raised;
write_hash_json_finally(file, current_poetry_lock_hash, rr, reached) ==
    IF rr
    THEN FileOf(json_dumps(current_poetry_lock_hash, Description))
    ELSE file

\* (b) a hash file that exists is kept instead of being overwritten.
write_hash_json_keep(file, current_poetry_lock_hash, rr, reached) ==
    IF reached /\ rr
    THEN IF file.exists
         THEN file
         ELSE FileOf(json_dumps(current_poetry_lock_hash, Description))
    ELSE file

\* (c) the hash file is removed as soon as an export command of a real run starts.
write_hash_json_invalidate(file, current_poetry_lock_hash, rr, reached) ==
    IF reached /\ rr
    THEN FileOf(json_dumps(current_poetry_lock_hash, Description))
    ELSE IF rr THEN NoFile ELSE file

\* Lines 489-503: the hash file as _poetry_export_logic leaves it; `reached`
\* tells whether control reached line 490 (no export command raised).
write_hash_json(file, current_poetry_lock_hash, rr, reached) ==
    IF reached /\ rr
    THEN FileOf(json_dumps(current_poetry_lock_hash, Description))
    ELSE file

\* Line 409: requirements.txt is unlinked whatever real_run is.
\* Line 442-443: a group's file is unlinked only on a real run.
unlinks(target, rr) == IF target = "main" THEN TRUE ELSE rr

\* Variant of after_group: the loop ends after its first group.
after_group_first_only(i) == IF i < 1 THEN "group" ELSE "write"

\* Lines 479-489: after the export of group i, the loop goes on or ends.
after_group(i) == IF i < Len(Groups) THEN "group" ELSE "write"

\* _poetry_export returns a flag (lines 520, 523); _try_poetry_export of
\* pyproject_ops/pyproject_deps.py (lines 477-491) returns nothing.
returned_value(e, flag) == IF e = "_try_poetry_export" THEN "None" ELSE flag

\* Variant of missing_lock: _try_poetry_export without its exists() guard.
missing_lock_unguarded(e) == "FileNotFoundError"

\* poetry.lock does not exist: read_bytes() raises at line 517, while
\* _try_poetry_export returns before reading (pyproject_deps.py lines 486-487).
missing_lock(e) == IF e = "_try_poetry_export" THEN "None" ELSE "FileNotFoundError"

\* vendor.better_pathlib.temp_cwd: the working directory inside the `with`
\* block, and the one restored when the block is left.
temp_cwd(dir, old) == [inside |-> dir, after |-> old]

\* Variant of run_cwd: requirements.txt is exported without the `with` block.
run_cwd_main_bare(target, caller_cwd) ==
    IF target = "main"
    THEN [inside |-> caller_cwd, after |-> caller_cwd]
    ELSE temp_cwd("dir_project_root", caller_cwd)

\* Lines 422 and 444: subprocess.run sits inside temp_cwd(self.dir_project_root).
run_cwd(target, caller_cwd) == temp_cwd("dir_project_root", caller_cwd)

\* ---------------------------------------------------------------- actions
\* An entry point is called: poetry.lock is read and hashed (line 517), unless
\* it does not exist.
Begin(e, rr) ==
    /\ pc = "idle"
    /\ real_run' = rr
    /\ entry' = e
    /\ need' = "none"
    /\ commands' = <<>>
    /\ group_i' = 1
    /\ run_cwds' = {}
    /\ hash_json_at_call' = hash_json
    /\ IF poetry_lock = Missing
       THEN /\ pc' = "returned"
            /\ returned' = missing_lock(e)
            /\ poetry_lock_hash' = 0
            /\ bytes_read' = Missing
       ELSE /\ pc' = "check"
            /\ returned' = "none"
            /\ poetry_lock_hash' = sha256_of_bytes(poetry_lock)
            /\ bytes_read' = poetry_lock
    /\ UNCHANGED <<poetry_lock, hash_json, requirements, cached_input, lock_at_write,
                   cwd, outcomes, with_logger, other_vars>>

\* poetry_export(real_run) -> _poetry_export.
Call(rr) == Begin("poetry_export", rr)

\* _try_poetry_export(real_run), the silent entry point of pyproject_ops.
TryCall(rr) == Begin("_try_poetry_export", rr)

\* Variant of Check: a check that finds no hash file creates one.
Check_creates ==
    /\ pc = "check"
    /\ need' = _do_we_need_poetry_export(poetry_lock_hash, hash_json)
    /\ commands' = Append(commands, Event("check", "-", need' \notin Errors))
    /\ pc' = IF need' = "True" THEN "main" ELSE "returned"
    /\ returned' = IF need' = "True" THEN "none"
                   ELSE IF need' = "False" THEN returned_value(entry, "False")
                   ELSE need'
    /\ hash_json' = IF hash_json.exists
                    THEN hash_json
                    ELSE FileOf(json_dumps(poetry_lock_hash, Description))
    /\ UNCHANGED <<poetry_lock, requirements, real_run, poetry_lock_hash,
                   group_i, bytes_read, hash_json_at_call,
                   cached_input, lock_at_write, entry, cwd, run_cwds, outcomes, with_logger, other_vars>>

\* Line 518: the cache check, and the branch it selects (lines 519-523).
Check ==
    /\ pc = "check"
    /\ need' = _do_we_need_poetry_export(poetry_lock_hash, hash_json)
    /\ commands' = Append(commands, Event("check", "-", need' \notin Errors))
    /\ pc' = IF need' = "True" THEN "main" ELSE "returned"
    /\ returned' = IF need' = "True" THEN "none"
                   ELSE IF need' = "False" THEN returned_value(entry, "False")
                   ELSE need'
    /\ UNCHANGED <<poetry_lock, hash_json, requirements, real_run, poetry_lock_hash,
                   group_i, bytes_read, hash_json_at_call,
                   cached_input, lock_at_write, entry, cwd, run_cwds, outcomes, with_logger, other_vars>>

\* Variant of Export: subprocess.run without check=True, a failing command
\* raises nothing.
Export_unchecked(target, ok, next) ==
    /\ ok \/ real_run
    /\ requirements' =
          [requirements EXCEPT ![target] =
              IF real_run /\ ok THEN poetry_lock
              ELSE IF unlinks(target, real_run) THEN Missing
              ELSE @]
    /\ commands' =
          (IF unlinks(target, real_run)
           THEN Append(commands, Event("unlink", target, TRUE))
           ELSE commands)
          \o (IF real_run THEN <<Event("run", target, ok)>> ELSE <<>>)
    /\ run_cwds' = IF real_run
                   THEN run_cwds \cup {run_cwd(target, cwd).inside}
                   ELSE run_cwds
    /\ cwd' = run_cwd(target, cwd).after
    /\ pc' = next
    /\ returned' = "none"
    /\ hash_json' = write_hash_json(hash_json, poetry_lock_hash, real_run, FALSE)
    /\ UNCHANGED <<poetry_lock, real_run, poetry_lock_hash, need, bytes_read,
                   hash_json_at_call, cached_input,
                   lock_at_write, entry, outcomes, with_logger, other_vars>>

\* One export command (lines 409-423 for "main", 442-459 for a group): the
\* unlink, then subprocess.run(check=True) when real_run.  A command that
\* succeeds writes the target from poetry.lock as it is now; one that fails
\* raises CalledProcessError, which nothing catches.
Export(target, ok, next) ==
    /\ ok \/ real_run
    /\ requirements' =
          [requirements EXCEPT ![target] =
              IF real_run /\ ok THEN poetry_lock
              ELSE IF unlinks(target, real_run) THEN Missing
              ELSE @]
    /\ commands' =
          (IF unlinks(target, real_run)
           THEN Append(commands, Event("unlink", target, TRUE))
           ELSE commands)
          \o (IF real_run THEN <<Event("run", target, ok)>> ELSE <<>>)
    /\ run_cwds' = IF real_run
                   THEN run_cwds \cup {run_cwd(target, cwd).inside}
                   ELSE run_cwds
    /\ cwd' = run_cwd(target, cwd).after
    /\ pc' = IF ok THEN next ELSE "returned"
    /\ returned' = IF ok THEN "none" ELSE "CalledProcessError"
    /\ hash_json' = write_hash_json(hash_json, poetry_lock_hash, real_run, FALSE)
    /\ UNCHANGED <<poetry_lock, real_run, poetry_lock_hash, need, bytes_read,
                   hash_json_at_call, cached_input,
                   lock_at_write, entry, outcomes, with_logger, other_vars>>

\* _poetry_export_main, called at line 476.
ExportMain(ok) ==
    /\ pc = "main"
    /\ Export("main", ok, "group")
    /\ UNCHANGED group_i

\* _poetry_export_group, called at lines 485-487 for the next group.
ExportGroup(ok) ==
    /\ pc = "group"
    /\ Export(Groups[group_i], ok, after_group(group_i))
    /\ group_i' = IF ok /\ group_i < Len(Groups) THEN group_i + 1 ELSE group_i

\* Lines 489-503, then `return True` (line 520).
WriteHashJson ==
    /\ pc = "write"
    /\ hash_json' = write_hash_json(hash_json, poetry_lock_hash, real_run, TRUE)
    /\ commands' = IF real_run
                   THEN Append(commands, Event("write", "-", TRUE))
                   ELSE commands
    /\ cached_input' = IF real_run THEN bytes_read ELSE cached_input
    /\ lock_at_write' = IF real_run THEN poetry_lock ELSE lock_at_write
    /\ pc' = "returned"
    /\ returned' = returned_value(entry, "True")
    /\ UNCHANGED <<poetry_lock, requirements, real_run, poetry_lock_hash, need,
                   group_i, bytes_read, hash_json_at_call, entry, cwd, run_cwds,
                   outcomes, with_logger, other_vars>>

\* The locals of a call are gone once it is over.
Forget ==
    /\ pc' = "idle"
    /\ poetry_lock_hash' = 0
    /\ need' = "none"
    /\ group_i' = 1
    /\ returned' = "none"
    /\ commands' = <<>>
    /\ bytes_read' = 0
    /\ hash_json_at_call' = NoFile
    /\ real_run' = TRUE
    /\ entry' = "poetry_export"
    /\ run_cwds' = {}
    /\ UNCHANGED <<poetry_lock, hash_json, requirements, cached_input, lock_at_write,
                   cwd, with_logger, other_vars>>

\* poetry_export hands the flag, or the error, to its caller (lines 531-535).
Return ==
    /\ pc = "returned"
    /\ Forget
    /\ UNCHANGED outcomes

\* The owner of poetry.lock rewrites it (poetry lock), at any moment.
EditLock(b) ==
    /\ b # poetry_lock
    /\ poetry_lock' = b
    /\ UNCHANGED <<hash_json, requirements, pc, real_run, poetry_lock_hash, need,
                   group_i, returned, commands, bytes_read, hash_json_at_call, cached_input, lock_at_write,
                   entry, cwd, run_cwds, outcomes, with_logger, other_vars>>

\* The user removes the hash file between two calls.
RemoveHashJson ==
    /\ pc = "idle"
    /\ hash_json.exists
    /\ hash_json' = NoFile
    /\ cached_input' = 0
    /\ lock_at_write' = 0
    /\ UNCHANGED <<poetry_lock, requirements, pc, real_run, poetry_lock_hash, need,
                   group_i, returned, commands, bytes_read, hash_json_at_call,
                   entry, cwd, run_cwds, outcomes, with_logger, other_vars>>

\* The hash file is damaged between two calls.
DamageHashJson(t) ==
    /\ pc = "idle"
    /\ hash_json.exists
    /\ hash_json.text # t
    /\ hash_json' = FileOf(t)
    /\ cached_input' = 0
    /\ lock_at_write' = 0
    /\ UNCHANGED <<poetry_lock, requirements, pc, real_run, poetry_lock_hash, need,
                   group_i, returned, commands, bytes_read, hash_json_at_call,
                   entry, cwd, run_cwds, outcomes, with_logger, other_vars>>

Next ==
    \/ \E rr \in BOOLEAN : Call(rr)
    \/ Check
    \/ \E ok \in BOOLEAN : ExportMain(ok)
    \/ \E ok \in BOOLEAN : ExportGroup(ok)
    \/ WriteHashJson
    \/ Return
    \/ \E b \in Contents : EditLock(b)
    \/ RemoveHashJson
    \/ \E t \in DamagedTexts : DamageHashJson(t)

Spec == Init /\ [][Next]_vars

TypeOK ==
    /\ poetry_lock \in Contents \cup {Missing}
    /\ pc \in {"idle", "check", "main", "group", "write", "writing", "returned"}
    /\ real_run \in BOOLEAN
    /\ group_i \in 1 .. Len(Groups)
    /\ returned \in {"none", "None", "True", "False"} \cup Errors
    /\ entry \in {"poetry_export", "_try_poetry_export"}
    /\ cwd \in Directories
    /\ run_cwds \subseteq Directories
    /\ \A t \in Targets : requirements[t] \in {Missing} \cup Contents

\* poetry.lock changes only between two calls: the behaviours of Spec in which
\* nobody touches the lock while a call is in progress.
EditLockBetweenCalls(b) ==
    /\ pc = "idle"
    /\ EditLock(b)

NextSeq ==
    \/ \E rr \in BOOLEAN : Call(rr)
    \/ Check
    \/ \E ok \in BOOLEAN : ExportMain(ok)
    \/ \E ok \in BOOLEAN : ExportGroup(ok)
    \/ WriteHashJson
    \/ Return
    \/ \E b \in Contents : EditLockBetweenCalls(b)
    \/ RemoveHashJson
    \/ \E t \in DamagedTexts : DamageHashJson(t)

SpecSeq == Init /\ [][NextSeq]_vars

\* poetry.lock is removed between two calls.
RemoveLock ==
    /\ pc = "idle"
    /\ poetry_lock # Missing
    /\ poetry_lock' = Missing
    /\ UNCHANGED <<hash_json, requirements, pc, real_run, poetry_lock_hash, need,
                   group_i, returned, commands, bytes_read, hash_json_at_call, cached_input, lock_at_write,
                   entry, cwd, run_cwds, outcomes, with_logger, other_vars>>

\* Both entry points, with a poetry.lock that may be missing when they are
\* called.
NextEntry ==
    \/ \E rr \in BOOLEAN : Call(rr)
    \/ \E rr \in BOOLEAN : TryCall(rr)
    \/ Check
    \/ \E ok \in BOOLEAN : ExportMain(ok)
    \/ \E ok \in BOOLEAN : ExportGroup(ok)
    \/ WriteHashJson
    \/ Return
    \/ \E b \in Contents : EditLockBetweenCalls(b)
    \/ RemoveLock
    \/ RemoveHashJson

SpecEntry == Init /\ [][NextEntry]_vars

\* Path.write_text (lines 491-503) in its two steps: open(mode="w") empties
\* the file, then the text is written and the file closed.
WriteOpen ==
    /\ pc = "write"
    /\ real_run
    /\ hash_json' = FileOf(<<>>)
    /\ pc' = "writing"
    /\ UNCHANGED <<poetry_lock, requirements, real_run, poetry_lock_hash, need,
                   group_i, returned, commands, bytes_read, hash_json_at_call, cached_input, lock_at_write,
                   entry, cwd, run_cwds, outcomes, with_logger, other_vars>>

WriteText ==
    /\ pc = "writing"
    /\ hash_json' = write_hash_json(hash_json, poetry_lock_hash, real_run, TRUE)
    /\ commands' = Append(commands, Event("write", "-", TRUE))
    /\ cached_input' = bytes_read
    /\ lock_at_write' = poetry_lock
    /\ pc' = "returned"
    /\ returned' = returned_value(entry, "True")
    /\ UNCHANGED <<poetry_lock, requirements, real_run, poetry_lock_hash, need,
                   group_i, bytes_read, hash_json_at_call, entry, cwd, run_cwds,
                   outcomes, with_logger, other_vars>>

\* The end of a dry run: nothing is written (line 490).
WriteSkipped ==
    /\ ~real_run
    /\ WriteHashJson

\* The process is killed (or the disk is full) between the two steps of the
\* write.
Kill ==
    /\ pc = "writing"
    /\ Forget
    /\ UNCHANGED outcomes

NextCrash ==
    \/ \E rr \in BOOLEAN : Call(rr)
    \/ Check
    \/ \E ok \in BOOLEAN : ExportMain(ok)
    \/ \E ok \in BOOLEAN : ExportGroup(ok)
    \/ WriteOpen
    \/ WriteText
    \/ WriteSkipped
    \/ Kill
    \/ Return
    \/ \E b \in Contents : EditLockBetweenCalls(b)

SpecCrash == Init /\ [][NextCrash]_vars

\* The scenario of successive real runs whose export commands succeed: the
\* calls are counted and the outcome of each is kept.
ScenarioCall ==
    /\ Len(outcomes) < MaxCalls
    /\ Call(TRUE)

ReturnRecorded ==
    /\ pc = "returned"
    /\ Forget
    /\ outcomes' = Append(outcomes,
                          [input |-> bytes_read,
                           returned |-> returned,
                           ran |-> {t \in Targets :
                                      \E i \in 1 .. Len(commands) :
                                         commands[i] = Event("run", t, TRUE)},
                           hash_json |-> hash_json])

NextScenario ==
    \/ ScenarioCall
    \/ Check
    \/ ExportMain(TRUE)
    \/ ExportGroup(TRUE)
    \/ WriteHashJson
    \/ ReturnRecorded
    \/ \E b \in Contents : EditLockBetweenCalls(b)

SpecScenario == Init /\ [][NextScenario]_vars

\* Repeated real runs: poetry_export(real_run=True) is called again and again,
\* each call runs to its end, and an export command that is tried again and
\* again eventually succeeds.  Between two calls poetry.lock may be edited and
\* the hash file removed; the hash file is never damaged.
ExportGroupSucceeds(i) ==
    /\ group_i = i
    /\ ExportGroup(TRUE)

NextConverge ==
    \/ Call(TRUE)
    \/ Check
    \/ \E ok \in BOOLEAN : ExportMain(ok)
    \/ \E ok \in BOOLEAN : ExportGroup(ok)
    \/ WriteHashJson
    \/ Return
    \/ \E b \in Contents : EditLockBetweenCalls(b)
    \/ RemoveHashJson

SpecConverge ==
    /\ Init
    /\ [][NextConverge]_vars
    /\ WF_vars(Call(TRUE))
    /\ WF_vars(Check)
    /\ WF_vars(WriteHashJson)
    /\ WF_vars(Return)
    /\ SF_vars(ExportMain(TRUE))
    /\ \A i \in 1 .. Len(Groups) : SF_vars(ExportGroupSucceeds(i))

\* ---------------------------------------------------- _with_logger, actions
\* logger.start_and_end: what the decorated function logs when the function
\* it wraps is over, and what it hands on (the value, or the error raised again).
start_and_end(outcome) ==
    [log |-> IF outcome = "raise" THEN "error" ELSE "end", outcome |-> outcome]

\* Variant of passed_kwargs: the decorated func() calls method() bare.
passed_kwargs_dropped(kwargs, verbose) ==
    IF verbose THEN [real_run |-> TRUE] ELSE kwargs

\* Lines 46 and 50: method(**kwargs) on both branches; msg, emoji and verbose
\* are parameters of _with_logger and are not handed on.
passed_kwargs(kwargs, verbose) == kwargs

\* _with_logger(method, msg, emoji, verbose, **kwargs) is called (line 25).
WithLoggerCall(m, v, kw) ==
    /\ with_logger.pc = "idle"
    /\ with_logger' = [pc |-> "wrapped", verbose |-> v, kwargs |-> kw, method |-> m,
                       received |-> <<>>, result |-> "none",
                       log |-> IF v THEN <<"start">> ELSE <<>>]
    /\ UNCHANGED <<deps_vars, other_vars>>

\* Line 46 (inside func) or line 50: the method is invoked.
WithLoggerInvoke ==
    /\ with_logger.pc = "wrapped"
    /\ LET kw == passed_kwargs(with_logger.kwargs, with_logger.verbose)
       IN  with_logger' = [with_logger EXCEPT
                              !.pc = "invoked",
                              !.received = Append(@, kw),
                              !.result = with_logger.method[kw]]
    /\ UNCHANGED <<deps_vars, other_vars>>

\* Lines 48 and 50: the outcome of the method goes to the caller.
WithLoggerReturn ==
    /\ with_logger.pc = "invoked"
    /\ with_logger' = [with_logger EXCEPT
                          !.pc = "done",
                          !.result = IF with_logger.verbose
                                     THEN start_and_end(@).outcome
                                     ELSE @,
                          !.log = IF with_logger.verbose
                                  THEN Append(@, start_and_end(with_logger.result).log)
                                  ELSE @]
    /\ UNCHANGED <<deps_vars, other_vars>>

WithLoggerForget ==
    /\ with_logger.pc = "done"
    /\ with_logger' = NoLoggerCall
    /\ UNCHANGED <<deps_vars, other_vars>>

NextLogger ==
    \/ \E m \in Methods, v \in BOOLEAN, kw \in Kwargs : WithLoggerCall(m, v, kw)
    \/ WithLoggerInvoke
    \/ WithLoggerReturn
    \/ WithLoggerForget

SpecLogger == Init /\ [][NextLogger]_vars

\* ------------------------------------------------------- virtual environment
\* The call on the virtual environment is over: `flag` (or the error) goes to
\* the caller.
VenvReturned(v, flag) == [v EXCEPT !.pc = "returned", !.returned = flag]

\* _create_virtualenv(real_run) is called (lines 57-58): an existing .venv ends
\* the call at once with False.
CreateVirtualenvCall(rr) ==
    /\ venv.pc = "idle"
    /\ LET v == [venv EXCEPT !.op = "_create_virtualenv", !.real_run = rr,
                             !.commands = <<>>, !.returned = "none",
                             !.dir_venv_at_call = venv.dir_venv]
       IN  venv' = IF venv.dir_venv
                   THEN VenvReturned(v, "False")
                   ELSE [v EXCEPT !.pc = "config"]
    /\ UNCHANGED <<deps_vars, with_logger, hs, search, procs, tests>>

\* Lines 61-69: `poetry config virtualenvs.in-project true`, run only when
\* real_run; a failing command raises CalledProcessError (check=True).
VenvConfig(ok) ==
    /\ venv.pc = "config"
    /\ ok \/ venv.real_run
    /\ LET v == IF venv.real_run
                THEN [venv EXCEPT !.commands = Append(@, "poetry config")]
                ELSE venv
       IN  venv' = IF ok
                   THEN [v EXCEPT !.pc = "env_use"]
                   ELSE VenvReturned(v, "CalledProcessError")
    /\ UNCHANGED <<deps_vars, with_logger, hs, search, procs, tests>>

\* Lines 71-81: `poetry env use pythonX.Y`, run only when real_run; the command
\* creates .venv in the project when it succeeds.  Then `return True`.
VenvEnvUse(ok) ==
    /\ venv.pc = "env_use"
    /\ ok \/ venv.real_run
    /\ LET v == IF venv.real_run
                THEN [venv EXCEPT !.commands = Append(@, "poetry env use"),
                                  !.dir_venv = ok]
                ELSE venv
       IN  venv' = IF ok
                   THEN VenvReturned(v, "True")
                   ELSE VenvReturned(v, "CalledProcessError")
    /\ UNCHANGED <<deps_vars, with_logger, hs, search, procs, tests>>

\* _remove_virtualenv(real_run), lines 122-133.  shutil.rmtree runs with
\* ignore_errors=True: when the removal fails (`removed` is FALSE) nothing is
\* raised and the directory is still there.
RemoveVirtualenvCall(rr, removed) ==
    /\ venv.pc = "idle"
    /\ removed \/ (rr /\ venv.dir_venv)
    /\ LET v == [venv EXCEPT !.op = "_remove_virtualenv", !.real_run = rr,
                             !.commands = <<>>, !.returned = "none",
                             !.dir_venv_at_call = venv.dir_venv]
       IN  venv' = IF venv.dir_venv
                   THEN IF rr
                        THEN VenvReturned([v EXCEPT !.commands = <<"rmtree">>,
                                                    !.dir_venv = ~removed],
                                          "True")
                        ELSE VenvReturned(v, "True")
                   ELSE VenvReturned(v, "False")
    /\ UNCHANGED <<deps_vars, with_logger, hs, search, procs, tests>>

\* create_virtualenv / remove_virtualenv hand the flag to the caller (lines
\* 105-107, 157-159); the call is remembered as the previous one.
VenvReturn ==
    /\ venv.pc = "returned"
    /\ venv' = [NoVenvCall(venv.dir_venv) EXCEPT
                   !.last = [op |-> venv.op, real_run |-> venv.real_run,
                             returned |-> venv.returned]]
    /\ UNCHANGED <<deps_vars, with_logger, hs, search, procs, tests>>

NextVenv ==
    \/ \E rr \in BOOLEAN : CreateVirtualenvCall(rr)
    \/ \E ok \in BOOLEAN : VenvConfig(ok)
    \/ \E ok \in BOOLEAN : VenvEnvUse(ok)
    \/ \E rr, removed \in BOOLEAN : RemoveVirtualenvCall(rr, removed)
    \/ VenvReturn

SpecVenv == Init /\ [][NextVenv]_vars

\* -------------------------------------------------------------- home_secret
\* Values a secret takes, and the dotted paths looked up.
SecretValues == {"v1", "v2"}

Paths == {"account_id", "admin_email"}

\* The text of home_secret.json holding value v at "account_id".
SecretText(v) == <<"{", "account_id", v, "}">>

\* Texts the user gives ./home_secret.json: a document, or one cut short.
SecretTexts == {SecretText(v) : v \in SecretValues} \cup {TruncatedText}

\* json.loads(text) of a JSON object: the dict of its keys.
json_loads(t) == [k \in json_keys(t) |-> json_get(t, k)]

\* _deep_get (lines 45-64): the value at the path, or KeyError.
_deep_get(dct, path) == IF path \in DOMAIN dct THEN dct[path] ELSE "KeyError"

\* Variant of synced_home: the source is copied only when there is no copy yet.
synced_home_once(here, home) ==
    IF here.exists /\ ~home.exists THEN FileOf(here.text) ELSE home

\* Lines 95-99: the home copy after the copy logic of `data`.
synced_home(here, home) == IF here.exists THEN FileOf(here.text) ELSE home

\* HomeSecret.data (lines 89-102), a cached_property: the first access copies
\* the source over the home file, reads the home file and parses it; the dict
\* is then kept on the instance and later accesses touch no file.  An access
\* that raises caches nothing.  `by` is the method that accessed it.
data(h, by) ==
    IF h.data.loaded
    THEN [hs |-> h, error |-> "none"]
    ELSE LET home == synced_home(h.p_here_secret, h.p_home_secret)
             t == [h EXCEPT !.p_home_secret = home,
                            !.touched_by = IF @ = "none" THEN by ELSE @]
         IN  IF ~home.exists
             THEN [hs |-> t, error |-> "FileNotFoundError"]
             ELSE IF ~json_loads_ok(home.text)
             THEN [hs |-> t, error |-> "JSONDecodeError"]
             ELSE [hs |-> [t EXCEPT !.data = [loaded |-> TRUE,
                                               dct |-> json_loads(home.text)],
                                    !.here_at_load = h.p_here_secret],
                   error |-> "none"]

\* What a lookup leaves in `last`.
Lookup(h, op, path, value) ==
    [h EXCEPT !.last = [op |-> op, path |-> path, value |-> value,
                        here |-> h.p_here_secret, home |-> h.p_home_secret]]

\* hs.t(path), lines 111-119: Token(data=self.data, path=path).  The argument
\* self.data is evaluated when the Token is built.
HsT(path) ==
    /\ LET d == data(hs, "hs.t")
       IN  hs' = IF d.error = "none"
                 THEN [d.hs EXCEPT !.tokens = @ \cup {[data |-> d.hs.data.dct,
                                                       path |-> path]}]
                 ELSE d.hs
    /\ UNCHANGED <<deps_vars, with_logger, venv, search, procs, tests>>

\* hs.v(path), lines 104-109.
HsV(path) ==
    /\ LET d == data(hs, "hs.v")
       IN  hs' = IF d.error = "none"
                 THEN Lookup(d.hs, "hs.v", path, _deep_get(d.hs.data.dct, path))
                 ELSE Lookup(d.hs, "hs.v", path, d.error)
    /\ UNCHANGED <<deps_vars, with_logger, venv, search, procs, tests>>

\* Token.v, lines 77-82, on a Token created before.
TokenV(token) ==
    /\ token \in hs.tokens
    /\ hs' = Lookup(hs, "Token.v", token.path, _deep_get(token.data, token.path))
    /\ UNCHANGED <<deps_vars, with_logger, venv, search, procs, tests>>

\* The user edits the source of truth ./home_secret.json, or removes it.
EditHereSecret(t) ==
    /\ hs.p_here_secret # FileOf(t)
    /\ hs' = [hs EXCEPT !.p_here_secret = FileOf(t)]
    /\ UNCHANGED <<deps_vars, with_logger, venv, search, procs, tests>>

RemoveHereSecret ==
    /\ hs.p_here_secret.exists
    /\ hs' = [hs EXCEPT !.p_here_secret = NoFile]
    /\ UNCHANGED <<deps_vars, with_logger, venv, search, procs, tests>>

\* The process ends and another one imports the module: a new HomeSecret
\* instance (line 122) over the same two files.
NewProcess ==
    /\ hs # NoSecretLoaded(hs.p_here_secret, hs.p_home_secret)
    /\ hs' = NoSecretLoaded(hs.p_here_secret, hs.p_home_secret)
    /\ UNCHANGED <<deps_vars, with_logger, venv, search, procs, tests>>

NextSecret ==
    \/ \E path \in Paths : HsT(path)
    \/ \E path \in Paths : HsV(path)
    \/ \E token \in hs.tokens : TokenV(token)
    \/ \E t \in SecretTexts : EditHereSecret(t)
    \/ RemoveHereSecret
    \/ NewProcess

SpecSecret == Init /\ [][NextSecret]_vars

\* --------------------------------------------------------- find_config_file
\* An absolute directory is the number of its components: 0 is the root of
\* the filesystem, and the directories above a directory d are d-1, ..., 0.
Dirs == 0 .. MaxDepth

\* Path.parent: the root is its own parent.
parent(d) == IF d = 0 THEN 0 ELSE d - 1

\* find_config_file(dir_cwd), lines 34-47, for the set `files` of directories
\* that hold pywf_open_source.json: the directory whose file is returned, or
\* FileNotFoundError (found = FALSE); `calls` counts the recursive calls.
RECURSIVE find_config_file(_, _)
find_config_file(dir_cwd, files) ==
    IF parent(dir_cwd) = dir_cwd
    THEN [found |-> FALSE, dir |-> dir_cwd, calls |-> 1]
    ELSE IF dir_cwd \in files
    THEN [found |-> TRUE, dir |-> dir_cwd, calls |-> 1]
    ELSE LET r == find_config_file(parent(dir_cwd), files)
         IN  [r EXCEPT !.calls = @ + 1]

\* path_config_json = find_config_file(Path.cwd()), line 51.
FindConfigFile(dir_cwd, files) ==
    /\ LET r == find_config_file(dir_cwd, files)
       IN  search' = [dir_cwd |-> dir_cwd, files |-> files, found |-> r.found,
                      dir |-> r.dir, calls |-> r.calls]
    /\ UNCHANGED <<deps_vars, with_logger, venv, hs, procs, tests>>

NextSearch == \E dir_cwd \in Dirs, files \in SUBSET Dirs : FindConfigFile(dir_cwd, files)

SpecSearch == Init /\ [][NextSearch]_vars

\* ------------------------------------------------------ two processes
\* The record a successful export of content b leaves in the hash file.
RecordFor(b) == FileOf(json_dumps(sha256_of_bytes(b), Description))

\* The project as the two processes find it: poetry.lock holds b and does not
\* change; the hash file is absent or holds the record of some export.
ProcsStart(b, file) ==
    /\ ~procs.started
    /\ procs' = [procs EXCEPT !.started = TRUE, !.poetry_lock = b,
                              !.hash_json = file]
    /\ UNCHANGED <<deps_vars, with_logger, venv, hs, search, tests>>

\* Process i calls _poetry_export(real_run=True): line 517.
ProcBegin(i) ==
    /\ procs.started
    /\ procs.p[i].pc = "idle"
    /\ procs' = [procs EXCEPT
                    !.p[i].pc = "check",
                    !.p[i].poetry_lock_hash = sha256_of_bytes(procs.poetry_lock)]
    /\ UNCHANGED <<deps_vars, with_logger, venv, hs, search, tests>>

\* Process i evaluates the condition of line 518 on the hash file as it is
\* at this moment.
ProcCheck(i) ==
    /\ procs.p[i].pc = "check"
    /\ LET n == _do_we_need_poetry_export(procs.p[i].poetry_lock_hash, procs.hash_json)
       IN  procs' = [procs EXCEPT
                        !.p[i].need = n,
                        !.p[i].pc = IF n = "True" THEN "main" ELSE "returned",
                        !.p[i].returned = IF n = "True" THEN "none" ELSE n]
    /\ UNCHANGED <<deps_vars, with_logger, venv, hs, search, tests>>

\* Process i runs its next export command, which succeeds (lines 475-487).
ProcExport(i) ==
    /\ procs.p[i].pc \in {"main", "group"}
    /\ LET q == procs.p[i]
           target == IF q.pc = "main" THEN "main" ELSE Groups[q.group_i]
       IN  procs' = [procs EXCEPT
                        !.requirements[target] = procs.poetry_lock,
                        !.p[i].pc = IF q.pc = "main" THEN "group"
                                    ELSE after_group(q.group_i),
                        !.p[i].group_i = IF q.pc = "group" /\ q.group_i < Len(Groups)
                                         THEN q.group_i + 1
                                         ELSE q.group_i]
    /\ UNCHANGED <<deps_vars, with_logger, venv, hs, search, tests>>

\* Process i starts path_poetry_lock_hash_json.write_text(...) (line 491):
\* open(mode="w") empties the file.
ProcWriteOpen(i) ==
    /\ procs.p[i].pc = "write"
    /\ procs' = [procs EXCEPT !.hash_json = FileOf(<<>>), !.p[i].pc = "writing"]
    /\ UNCHANGED <<deps_vars, with_logger, venv, hs, search, tests>>

\* Process i writes the text and closes the file (lines 491-503), then
\* returns True (line 520).
ProcWriteText(i) ==
    /\ procs.p[i].pc = "writing"
    /\ procs' = [procs EXCEPT
                    !.hash_json = write_hash_json(procs.hash_json,
                                                  procs.p[i].poetry_lock_hash,
                                                  TRUE, TRUE),
                    !.p[i].pc = "returned",
                    !.p[i].returned = "True"]
    /\ UNCHANGED <<deps_vars, with_logger, venv, hs, search, tests>>

NextProcs ==
    \/ \E b \in Contents, file \in {NoFile} \cup {RecordFor(c) : c \in Contents} :
          ProcsStart(b, file)
    \/ \E i \in Procs : ProcBegin(i)
    \/ \E i \in Procs : ProcCheck(i)
    \/ \E i \in Procs : ProcExport(i)
    \/ \E i \in Procs : ProcWriteOpen(i)
    \/ \E i \in Procs : ProcWriteText(i)

SpecProcs == Init /\ [][NextProcs]_vars

\* ------------------------------------------------------------- test runners
\* The public methods of PyProjectTests, and the method each of them hands to
\* _with_logger as `method` (lines 50, 87, 113, 144, 175).
Runners == {"run_unit_test", "run_cov_test", "view_cov", "run_int_test", "run_load_test"}

method_passed(runner) ==
    CASE runner = "run_unit_test" -> "_run_unit_test"
      [] runner = "run_cov_test"  -> "_run_cov_test"
      [] runner = "view_cov"      -> "_view_cov"
      [] runner = "run_int_test"  -> "_run_int_test"
      [] runner = "run_load_test" -> "run_load_test"

\* A public method is called with real_run and verbose.
TestCall(runner, rr, v) ==
    /\ tests.pc = "idle"
    /\ tests' = [NoTestCall EXCEPT !.pc = "running", !.stack = <<runner>>,
                                   !.real_run = rr, !.verbose = v]
    /\ UNCHANGED <<deps_vars, with_logger, venv, hs, search, procs>>

\* The public method on top of the stack runs `return self._with_logger(
\* method=..., verbose=verbose, real_run=real_run)`, and _with_logger calls
\* method(**kwargs) with kwargs = {real_run} (define_02_logger.py lines 46, 50):
\* the method is entered, with verbose at its default.  When the interpreter
\* has no frame left the call raises RecursionError, which nothing catches.
TestWithLogger ==
    /\ tests.pc = "running"
    /\ tests.stack[Len(tests.stack)] \in Runners
    /\ tests' = IF Len(tests.stack) >= MaxFrames
                THEN [tests EXCEPT !.pc = "done", !.result = "RecursionError"]
                ELSE [tests EXCEPT
                         !.stack = Append(@, method_passed(tests.stack[Len(tests.stack)])),
                         !.verbose = IF Len(tests.stack) = 1 THEN @ ELSE FALSE]
    /\ UNCHANGED <<deps_vars, with_logger, venv, hs, search, procs>>

\* The command wrapper on top of the stack (_run_unit_test, ..., _view_cov)
\* runs: subprocess.run when real_run, with check=True except in _view_cov
\* (line 105); its value, or its error, goes up to the first caller.
TestRun(ok) ==
    /\ tests.pc = "running"
    /\ tests.stack[Len(tests.stack)] \notin Runners
    /\ ok \/ (tests.real_run /\ tests.stack[Len(tests.stack)] # "_view_cov")
    /\ tests' = [tests EXCEPT
                    !.pc = "done",
                    !.invoked = Append(@, tests.stack[Len(tests.stack)]),
                    !.commands = IF tests.real_run
                                 THEN Append(@, IF tests.stack[Len(tests.stack)] = "_view_cov"
                                                THEN "open"
                                                ELSE "pytest")
                                 ELSE @,
                    !.result = IF ok THEN "None" ELSE "CalledProcessError"]
    /\ UNCHANGED <<deps_vars, with_logger, venv, hs, search, procs>>

\* The first caller has the result; the call is over.
TestReturn ==
    /\ tests.pc = "done"
    /\ tests' = NoTestCall
    /\ UNCHANGED <<deps_vars, with_logger, venv, hs, search, procs>>

NextTests ==
    \/ \E runner \in Runners, rr, v \in BOOLEAN : TestCall(runner, rr, v)
    \/ TestWithLogger
    \/ \E ok \in BOOLEAN : TestRun(ok)
    \/ TestReturn

SpecTests == Init /\ [][NextTests]_vars

\* ------------------------------------------------------------- vocabulary
\* The record a successful export of content b leaves in the hash file.
RecordOf(b) == FileOf(<<"{", "hash", sha256_of_bytes(b), "description", Description, "}">>)

\* The hash file holds a record as the program writes them.
WellFormed(file) == \E b \in Contents : file = RecordOf(b)

\* The hash such a record stores.
StoredHash(file) == file.text[3]

InCall == pc \notin {"idle", "check"}

Ran(target) == \E i \in 1 .. Len(commands) : commands[i] = Event("run", target, TRUE)

SomeRun == \E i \in 1 .. Len(commands) : commands[i].op = "run"

SomeWrite == \E i \in 1 .. Len(commands) : commands[i].op = "write"

Failed == pc = "returned" /\ returned = "CalledProcessError"

\* ------------------------------------------------------------------ claims
\* C1: when an export command fails during _poetry_export_logic, the hash file
\* is exactly what it was when the call started (same text, or still absent),
\* and the check on the same input still answers what it answered before.
C1_FailureLeavesCacheUntouched ==
    Failed =>
        /\ hash_json = hash_json_at_call
        /\ _do_we_need_poetry_export(sha256_of_bytes(bytes_read), hash_json) = need

\* C1 witness: a command failed after another one succeeded, with a record on disk.
C1_Witness ==
    /\ Failed
    /\ SomeRun
    /\ Ran("main")
    /\ WellFormed(hash_json)

\* C2 as stated: whenever _poetry_export_logic returns without error the hash
\* file is exactly the fresh record for the input of that call, and a call that
\* did not succeed never changes the file.
C2_Original ==
    /\ (pc = "returned" /\ returned = "True") => hash_json = RecordOf(bytes_read)
    /\ (pc = "returned" /\ returned # "True") => hash_json = hash_json_at_call

\* C2 amended: whenever _poetry_export_logic returns without error on a real
\* run the hash file is exactly the fresh record {hash, description} for the
\* input of that call, replacing any prior record; a dry run, and a call that
\* did not succeed, leave the file as it was.
C2_RecordIffSucceeded ==
    /\ (pc = "returned" /\ returned = "True" /\ real_run)
           => /\ hash_json = RecordOf(bytes_read)
              /\ json_keys(hash_json.text) = {"hash", "description"}
    /\ (pc = "returned" /\ ~(returned = "True" /\ real_run))
           => hash_json = hash_json_at_call

\* C2 witness: a successful real run replaced a record that held another hash.
C2_Witness ==
    /\ pc = "returned"
    /\ returned = "True"
    /\ real_run
    /\ WellFormed(hash_json_at_call)
    /\ hash_json_at_call # hash_json

\* C3 as stated: whenever _poetry_export skips (returns False), every exported
\* file is present and was produced from the current content of poetry.lock.
C3_NeverUnderRun ==
    (pc = "returned" /\ returned = "False")
        => \A t \in Targets : requirements[t] = poetry_lock

\* C4: with no hash file, the check answers True and raises nothing.
C4_ColdStart ==
    (InCall /\ ~hash_json_at_call.exists)
        => /\ need = "True"
           /\ returned \notin {"JSONDecodeError", "KeyError", "False"}

\* C4 witness: the check ran without a hash file, after the user removed the
\* file that an earlier export had left (the exported files are still there).
C4_Witness ==
    /\ pc = "main"
    /\ ~hash_json_at_call.exists
    /\ need = "True"
    /\ \A t \in Targets : requirements[t] # Missing

\* C5: with a well-formed record, the check answers exactly
\* (current hash # stored hash).
C5_CompareHashes ==
    (InCall /\ WellFormed(hash_json_at_call))
        => need = (IF sha256_of_bytes(bytes_read) # StoredHash(hash_json_at_call)
                   THEN "True"
                   ELSE "False")

\* C5 witness: the check answered True against a record holding another hash.
C5_Witness ==
    /\ pc = "main"
    /\ WellFormed(hash_json_at_call)
    /\ StoredHash(hash_json_at_call) # poetry_lock_hash
    /\ need = "True"

\* C6: after a successful real export of b the check on b answers False; and a
\* call that finds the record of its own input returns False, runs no command,
\* unlinks no exported file and leaves the hash file as it is.
C6_Idempotent ==
    /\ (pc = "returned" /\ returned = "True" /\ real_run)
           => _do_we_need_poetry_export(sha256_of_bytes(bytes_read), hash_json) = "False"
    /\ (InCall /\ hash_json_at_call = RecordOf(bytes_read))
           => /\ pc = "returned"
              /\ returned = "False"
              /\ commands = <<Event("check", "-", TRUE)>>
              /\ hash_json = hash_json_at_call

\* C6 witness: a call skipped on the record of its own input.
C6_Witness ==
    /\ pc = "returned"
    /\ returned = "False"
    /\ hash_json_at_call = RecordOf(bytes_read)
    /\ cached_input = bytes_read

\* C7: when the record on disk was written by an export of b1 and the call
\* reads b2 # b1, the check answers True and the export starts again.
C7_Sensitive ==
    (/\ InCall
     /\ ~(pc = "returned" /\ returned = "True")
     /\ WellFormed(hash_json_at_call)
     /\ cached_input # bytes_read)
        => /\ need = "True"
           /\ returned # "False"

\* C7 witness: the export starts again on a content other than the cached one.
C7_Witness ==
    /\ pc = "main"
    /\ WellFormed(hash_json_at_call)
    /\ cached_input \in Contents
    /\ cached_input # bytes_read
    /\ need = "True"

\* C8 as stated: _poetry_export returns True exactly when an export command
\* was executed in that call, and False exactly when none was.
C8_ReturnsWhetherExecuted ==
    (pc = "returned" /\ returned \in {"True", "False"})
        => (returned = "True" <=> SomeRun)

\* C9 as stated: a record on disk holds the hash of poetry.lock as it was at
\* the moment the last successful export completed.
C9_Original ==
    WellFormed(hash_json) => StoredHash(hash_json) = sha256_of_bytes(lock_at_write)

\* C9 amended: a record on disk holds the hash of the bytes of poetry.lock that
\* the last successful export read when it started (line 517); when the lock
\* is modified while the commands run, that is the earlier content.
C9_HashOfBytesRead ==
    WellFormed(hash_json)
        => /\ cached_input \in Contents
           /\ StoredHash(hash_json) = sha256_of_bytes(cached_input)

\* C9 witness: the record was written while the lock no longer held the bytes
\* the call had read.
C9_Witness ==
    /\ pc = "returned"
    /\ SomeWrite
    /\ WellFormed(hash_json)
    /\ lock_at_write # cached_input

\* C10: the hash file changes only by the write of a call, and that write
\* comes after the cache check and after the successful main export and the
\* four successful group exports of the same call, and is the last thing the
\* call does.
C10_WriteIsFinalStep ==
    /\ (pc # "idle" /\ hash_json # hash_json_at_call) => SomeWrite
    /\ \A i \in 1 .. Len(commands) :
          commands[i].op = "write"
              => /\ i = Len(commands)
                 /\ commands[1] = Event("check", "-", TRUE)
                 /\ \A t \in Targets :
                       \E j \in 1 .. (i - 1) : commands[j] = Event("run", t, TRUE)

\* C10 witness: a call wrote the hash file.
C10_Witness ==
    /\ pc = "returned"
    /\ SomeWrite
    /\ hash_json # hash_json_at_call

\* C11: a hash file that exists and is damaged (not JSON, or without "hash")
\* makes the check raise; the call answers neither True nor False, runs no
\* export command and leaves the damaged file as it is.
C11_CorruptIsFatal ==
    (InCall /\ hash_json_at_call.exists /\ ~WellFormed(hash_json_at_call))
        => /\ pc = "returned"
           /\ returned \in {"JSONDecodeError", "KeyError"}
           /\ need \notin {"True", "False"}
           /\ commands = <<Event("check", "-", FALSE)>>
           /\ hash_json = hash_json_at_call
           /\ ~WellFormed(hash_json)

\* C11 witness: the check raised on a hash file cut short.
C11_Witness ==
    /\ pc = "returned"
    /\ returned = "JSONDecodeError"
    /\ hash_json = FileOf(TruncatedText)

\* C14: the step that evaluates _do_we_need_poetry_export changes neither the
\* hash file, nor poetry.lock, nor any exported file, and evaluating it again
\* on what it left gives the same answer.
C14_CheckIsReadOnly ==
    [][(pc = "check" /\ pc' # "check")
          => /\ hash_json' = hash_json
             /\ poetry_lock' = poetry_lock
             /\ requirements' = requirements
             /\ _do_we_need_poetry_export(poetry_lock_hash', hash_json') = need']_vars

\* C14 witness: the check has just run against a record and chose to export.
C14_Witness ==
    /\ pc = "main"
    /\ need = "True"
    /\ WellFormed(hash_json)
    /\ commands = <<Event("check", "-", TRUE)>>

\* C15: no step of a call removes the hash file; a step of a call either
\* leaves the file as it is or is the final write of a successful real run,
\* which leaves the record of the bytes that call read.
C15_TwoStateMachine ==
    [][(pc # "idle" \/ pc' # "idle")
          => \/ hash_json' = hash_json
             \/ /\ pc = "write"
                /\ real_run
                /\ returned' = "True"
                /\ hash_json' = RecordOf(bytes_read)]_vars

\* C15 witness: a dry run came to its end with the record still on disk.
C15_Witness ==
    /\ pc = "returned"
    /\ returned = "True"
    /\ ~real_run
    /\ WellFormed(hash_json)

C18_HaltNoRetry ==
    /\ \A i \in 1 .. Len(commands) :
          (commands[i].op = "run" /\ ~commands[i].ok)
              => /\ i = Len(commands)
                 /\ pc = "returned"
                 /\ returned = "CalledProcessError"
    /\ \A i, j \in 1 .. Len(commands) :
          (i # j /\ commands[i].op = "run" /\ commands[j].op = "run")
              => commands[i].arg # commands[j].arg

\* C18 witness: the export of "dev" failed after the main export succeeded.
C18_Witness ==
    /\ Failed
    /\ commands[Len(commands)] = Event("run", "dev", FALSE)
    /\ requirements["main"] # Missing

\* A call that found no poetry.lock is over.
LockWasMissing == pc = "returned" /\ bytes_read = Missing

\* C12 as stated: when poetry.lock is missing, every entry point raises at
\* once, without reading or writing the hash file and without running a command.
C12_Original ==
    LockWasMissing
        => /\ returned = "FileNotFoundError"
           /\ commands = <<>>
           /\ hash_json = hash_json_at_call

\* C12 amended: when poetry.lock is missing, _poetry_export / poetry_export
\* raise FileNotFoundError at once, and _try_poetry_export returns at once
\* without an error; none of them reads or writes the hash file or runs a
\* command.
C12_MissingLock ==
    LockWasMissing
        => /\ entry = "poetry_export" => returned = "FileNotFoundError"
           /\ entry = "_try_poetry_export" => returned = "None"
           /\ commands = <<>>
           /\ need = "none"
           /\ hash_json = hash_json_at_call

\* C12 witness: _try_poetry_export came back silently from a missing
\* poetry.lock, with a record on disk.
C12_Witness ==
    /\ LockWasMissing
    /\ entry = "_try_poetry_export"
    /\ returned = "None"
    /\ WellFormed(hash_json)

\* C13 as stated: at every point of a call, and after a call was killed
\* during the write, the hash file is either what it was before the call (or
\* absent) or the complete new record, never an empty or truncated file.
C13_AtomicReplace ==
    /\ pc # "idle" => (hash_json = hash_json_at_call \/ hash_json = RecordOf(bytes_read))
    /\ hash_json.exists => WellFormed(hash_json)

\* C16: starting without a hash file, the first call returns True, runs the
\* five exports and leaves the record of its input A; a second call on the
\* same input returns False and runs nothing; a third call, after the input
\* changed to B, returns True, runs the five exports and leaves the record of B.
C16_ThreeCalls ==
    /\ Len(outcomes) >= 1
          => /\ outcomes[1].returned = "True"
             /\ outcomes[1].ran = Targets
             /\ outcomes[1].hash_json = RecordOf(outcomes[1].input)
    /\ (Len(outcomes) >= 2 /\ outcomes[2].input = outcomes[1].input)
          => /\ outcomes[2].returned = "False"
             /\ outcomes[2].ran = {}
             /\ outcomes[2].hash_json = outcomes[1].hash_json
    /\ (/\ Len(outcomes) >= 3
        /\ outcomes[2].input = outcomes[1].input
        /\ outcomes[3].input # outcomes[1].input)
          => /\ outcomes[3].returned = "True"
             /\ outcomes[3].ran = Targets
             /\ outcomes[3].hash_json = RecordOf(outcomes[3].input)
             /\ outcomes[3].hash_json # outcomes[1].hash_json

\* C16 witness: the three calls of the scenario are over.
C16_Witness ==
    /\ Len(outcomes) = 3
    /\ outcomes[2].input = outcomes[1].input
    /\ outcomes[3].input # outcomes[1].input
    /\ outcomes[3].returned = "True"

\* C19: every export command a call runs is run with the project root as the
\* working directory, wherever the process was started, and the working
\* directory of the process is the same afterwards.
C19_RunInProjectRoot ==
    /\ run_cwds \subseteq {"dir_project_root"}
    /\ (\E i \in 1 .. Len(commands) : commands[i].op = "run")
          => run_cwds = {"dir_project_root"}

\* C19 witness: the five exports ran for a process started elsewhere.
C19_Witness ==
    /\ cwd = "elsewhere"
    /\ \A t \in Targets : Ran(t)
    /\ run_cwds # {}

\* C20: _with_logger invokes the method exactly once, with the keyword
\* arguments it was given, and hands back the method's outcome (its value, or
\* its error), whatever verbose is.
C20_WrapperPreserves ==
    /\ Len(with_logger.received) <= 1
    /\ with_logger.pc = "done"
          => /\ with_logger.received = <<with_logger.kwargs>>
             /\ with_logger.result = with_logger.method[with_logger.kwargs]

\* C20 witness: a verbose call wrapped a method that raises on the arguments
\* given and does not on the default ones.
C20_Witness ==
    /\ with_logger.pc = "done"
    /\ with_logger.verbose
    /\ ~with_logger.kwargs.real_run
    /\ with_logger.result = "raise"
    /\ with_logger.method[[real_run |-> TRUE]] = "True"
    /\ with_logger.log = <<"start", "error">>

\* C21 as stated: whenever poetry.lock exists and _try_poetry_export(real_run=True)
\* returns normally, requirements.txt and the four group files all exist.
C21_EnsuresFilesExist ==
    (/\ pc = "returned"
     /\ entry = "_try_poetry_export"
     /\ real_run
     /\ returned = "None"
     /\ bytes_read # Missing)
        => \A t \in Targets : requirements[t] # Missing

\* C27 as stated: no step of a call with real_run=False runs an export command,
\* deletes or rewrites an exported file (requirements.txt included), or creates
\* or modifies the hash file.
C27_DryRunChangesNothing ==
    [][(pc # "idle" /\ ~real_run)
          => /\ requirements' = requirements
             /\ hash_json' = hash_json
             /\ \A i \in 1 .. Len(commands') : commands'[i].op # "run"]_vars

\* A call of _create_virtualenv / _remove_virtualenv came back with a flag.
VenvFlag(op) ==
    /\ venv.pc = "returned"
    /\ venv.op = op
    /\ venv.returned \in {"True", "False"}

\* C22 as stated: _create_virtualenv returns True exactly when that call
\* created .venv; with .venv already there it runs no command and returns
\* False; and a successful real call that follows a real call that returned
\* True returns False.
C22_CreateFlag ==
    VenvFlag("_create_virtualenv")
        => /\ venv.returned = "True" <=> (~venv.dir_venv_at_call /\ venv.dir_venv)
           /\ venv.dir_venv_at_call
                 => (venv.returned = "False" /\ venv.commands = <<>>)
           /\ (/\ venv.real_run
               /\ venv.last = [op |-> "_create_virtualenv", real_run |-> TRUE,
                               returned |-> "True"])
                 => venv.returned = "False"

\* C23 as stated: _remove_virtualenv returns True exactly when that call
\* removed .venv, which then does not exist; without .venv it returns False
\* and changes nothing.
C23_RemoveFlag ==
    VenvFlag("_remove_virtualenv")
        => /\ venv.returned = "True" <=> (venv.dir_venv_at_call /\ ~venv.dir_venv)
           /\ ~venv.dir_venv_at_call
                 => (venv.returned = "False" /\ ~venv.dir_venv /\ venv.commands = <<>>)

\* C24 as stated: the secret files are first touched (read, copied, parsed)
\* by a request for a value, hs.v or Token.v, never by the creation of a
\* Token; as long as no value was requested nothing is loaded.
C24_LazyLoading ==
    /\ hs.touched_by # "hs.t"
    /\ hs.last.op = "none" => (hs.touched_by = "none" /\ ~hs.data.loaded)

\* A value was looked up, by hs.v or Token.v.
LookedUp == hs.last.op \in {"hs.v", "Token.v"}

\* C25 as stated: at every lookup (hs.v, Token.v) made while the source file
\* exists, the home copy has the content of the source file and the value
\* returned is the one in the source file as it is at that lookup.
C25_Original ==
    (LookedUp /\ hs.last.here.exists)
        => /\ hs.last.home = hs.last.here
           /\ json_loads_ok(hs.last.here.text)
                 => hs.last.value = _deep_get(json_loads(hs.last.here.text), hs.last.path)

\* C25 amended: the synchronization happens when the instance loads its data
\* (its first hs.t or hs.v): if the source file exists then, the home copy has
\* the content the source had at that moment and the data are parsed from it;
\* every lookup on the instance returns the value loaded then, whatever the
\* source file has become since.
C25_SyncOnLoad ==
    (hs.data.loaded /\ hs.here_at_load.exists)
        => /\ hs.p_home_secret = hs.here_at_load
           /\ hs.data.dct = json_loads(hs.here_at_load.text)
           /\ (LookedUp /\ hs.last.value \notin Errors \ {"KeyError"})
                 => hs.last.value = _deep_get(json_loads(hs.here_at_load.text),
                                              hs.last.path)

\* C25 witness: a lookup returned the value loaded earlier, after the source
\* file was given another value.
C25_Witness ==
    /\ LookedUp
    /\ hs.data.loaded
    /\ hs.here_at_load = FileOf(SecretText("v1"))
    /\ hs.last.here = FileOf(SecretText("v2"))
    /\ hs.last.path = "account_id"
    /\ hs.last.value = "v1"

\* The directories on the chain from the start directory up to the root.
Chain(d) == 0 .. d

\* C26 as stated: find_config_file returns the file of the nearest directory
\* on the chain from the start directory up to and including the filesystem
\* root that contains it, and raises FileNotFoundError exactly when no
\* directory on that chain contains it.
C26_SearchAllTheWayUp ==
    search.calls > 0
        => /\ search.found <=> (search.files \cap Chain(search.dir_cwd) # {})
           /\ search.found
                 => /\ search.dir \in search.files \cap Chain(search.dir_cwd)
                    /\ \A d \in search.files \cap Chain(search.dir_cwd) : d <= search.dir

\* C28 as stated: of two processes running _poetry_export concurrently on the
\* same unchanged poetry.lock with export commands that succeed, neither fails
\* on parsing the hash file, and once both are over the hash file holds the
\* record of poetry.lock, so that a following check answers False.
C28_ConcurrentRuns ==
    /\ \A i \in Procs : procs.p[i].returned \notin {"JSONDecodeError", "KeyError"}
    /\ (\A i \in Procs : procs.p[i].pc = "returned")
          => /\ procs.hash_json = RecordFor(procs.poetry_lock)
             /\ _do_we_need_poetry_export(sha256_of_bytes(procs.poetry_lock),
                                          procs.hash_json) = "False"

\* C30 as stated: for every real_run and verbose, a call of run_load_test
\* invokes _run_load_test, exactly once, runs pytest at most once, and then
\* returns or hands on the failure of that command.
C30_RunLoadTestOnce ==
    (tests.pc # "idle" /\ tests.stack[1] = "run_load_test")
        => /\ Len(tests.stack) >= 2 => tests.stack = <<"run_load_test", "_run_load_test">>
           /\ tests.pc = "done"
                 => /\ tests.invoked = <<"_run_load_test">>
                    /\ Len(tests.commands) <= 1
                    /\ tests.result \in {"None", "CalledProcessError"}

\* A step that neither changes poetry.lock nor removes the hash file.
InputSettled ==
    /\ poetry_lock' = poetry_lock
    /\ hash_json.exists => hash_json'.exists

\* The check on poetry.lock as it is answers False.
UpToDate == _do_we_need_poetry_export(sha256_of_bytes(poetry_lock), hash_json) = "False"

\* C29: if from some point on poetry.lock no longer changes and the hash file
\* is not removed, then repeated real runs whose commands eventually succeed
\* reach a state from which the check answers False for ever.
C29_Converges == (<>[][InputSettled]_vars) => <>[]UpToDate

\* C29 witness: a real run skipped, the hash file holding the record of
\* poetry.lock, after an earlier run had left the record of another content.
C29_Witness ==
    /\ pc = "returned"
    /\ returned = "False"
    /\ real_run
    /\ UpToDate
    /\ lock_at_write # 0
    /\ \A t \in Targets : requirements[t] = poetry_lock

=============================================================================
